---- MODULE Spec2Model ----
(***************************************************************************)
(* movies-center/entertainment_center.py as a state machine.               *)
(*                                                                         *)
(* The module body is a straight line of ten statements: two imports, six  *)
(* calls of media.Movie whose results are bound to module-level names, one *)
(* list display bound to `movies`, and one call of                         *)
(* fresh_tomatoes.open_movies_page(movies).  The Python heap is modelled   *)
(* explicitly (objects live at addresses the allocator chooses), so that   *)
(* object identity, aliasing and mutation are things a check can refute.   *)
(* media.Movie and fresh_tomatoes are not part of the source file; the     *)
(* constructor is modelled from the specification's data model, and the    *)
(* renderer only as a synchronous call that returns or raises.             *)
(***************************************************************************)
EXTENDS Integers, Sequences, FiniteSets, TLC

VARIABLES
  pc,          \* index of the statement of Program to execute next
  status,      \* "running" | "rendering" | "done" | "crashed" | "harness"
  error,       \* "none", or the exception that ended the run
  imported,    \* module names bound by the import statements
  env,         \* module namespace: variable name -> address of a Movie
  heap,        \* address -> Movie object (its four attributes)
  constructed, \* addresses of the Movie objects, in order of construction
  movies,      \* {} while `movies` is unbound, else {the list of addresses}
  calls,       \* the invocations of the renderer, each with its argument
  inputs,      \* constructor harness: the four strings under test
  modified     \* constructor harness: the objects assigned to, oldest first

vars == <<pc, status, error, imported, env, heap, constructed, movies, calls,
          inputs, modified>>

-----------------------------------------------------------------------------
(* Bounds *)

NumAddrs == 6     \* addresses the allocator can hand out
MaxObjs == 2      \* harness: constructions from the same inputs
MaxSets == 1      \* harness: attribute assignments

Addrs == 1..NumAddrs

-----------------------------------------------------------------------------
(* The literals of the source *)

toy_story ==
  << "Toy Story",
     "A story of a boy and his toys that come to life",
     "http://upload.wikimedia.org/wikipedia/en/1/13/Toy_Story.jpg",
     "https://www.youtube.com/watch?v=KYz2wyBy3kc" >>

avatar ==
  << "Avatar",
     "A marine on an alien planet",
     "http://upload.wikimedia.org/wikipedia/en/b/b0/Avatar-Teaser-Poster.jpg",
     "https://www.youtube.com/watch?v=cRdxXPV9GNQ" >>

rurouni_kenshin ==
  << "Rurouni Kenshin",
     "The story of a wanderer named Himura Kenshin, formerly known as the assassin Hitokiri Battosai",
     "http://upload.wikimedia.org/wikipedia/en/f/f6/Rurouni_Kenshin_%282012_film%29_poster.jpg",
     "https://www.youtube.com/watch?v=lc_JmcRxdx8" >>

hunger_games ==
  << "The Hunger Games",
     "A real reality show",
     "http://upload.wikimedia.org/wikipedia/en/4/42/HungerGamesPoster.jpg",
     "https://www.youtube.com/watch?v=4S9a5V9ODuY" >>

taken_empty_storyline ==
  << "Taken",
     "",
     "http://upload.wikimedia.org/wikipedia/en/e/ed/Taken_film_poster.jpg",
     "https://www.youtube.com/watch?v=wCbDUREBwUg" >>

taken ==
  << "Taken",
     "A former CIA operative named Bryan Mills who sets about tracking down his daughter after she is kidnapped by human traffickers for sexual slavery while travelling in France",
     "http://upload.wikimedia.org/wikipedia/en/e/ed/Taken_film_poster.jpg",
     "https://www.youtube.com/watch?v=wCbDUREBwUg" >>

gone_girl ==
  << "Gone Girl",
     "A mystery about a man whose wife has gone missing and the events after",
     "http://upload.wikimedia.org/wikipedia/en/0/05/Gone_Girl_Poster.jpg",
     "https://www.youtube.com/watch?v=2-_-1nJf8Vg" >>

\* line 39 with two neighbours exchanged
movies_display_swapped ==
  <<"toy_story", "avatar", "hunger_games", "rurouni_kenshin", "taken", "gone_girl">>

\* line 39 with one name typed twice and another left out
movies_display_repeated ==
  <<"toy_story", "avatar", "avatar", "hunger_games", "taken", "gone_girl">>

\* the names listed by the display of line 39, in the order written
movies_display ==
  <<"toy_story", "avatar", "rurouni_kenshin", "hunger_games", "taken", "gone_girl">>

Stmt(op, mod, target, args) ==
  [op |-> op, mod |-> mod, target |-> target, args |-> args]

\* the source with line 40 written twice
ProgramCallsTwice ==
  << Stmt("import", "media", "media", <<>>),
     Stmt("import", "fresh_tomatoes", "fresh_tomatoes", <<>>),
     Stmt("new", "media", "toy_story", toy_story),
     Stmt("new", "media", "avatar", avatar),
     Stmt("new", "media", "rurouni_kenshin", rurouni_kenshin),
     Stmt("new", "media", "hunger_games", hunger_games),
     Stmt("new", "media", "taken", taken),
     Stmt("new", "media", "gone_girl", gone_girl),
     Stmt("list", "", "movies", movies_display),
     Stmt("call", "fresh_tomatoes", "", <<"movies">>),
     Stmt("call", "fresh_tomatoes", "", <<"movies">>) >>

\* the statements of the module body, top to bottom
Program ==
  << Stmt("import", "media", "media", <<>>),
     Stmt("import", "fresh_tomatoes", "fresh_tomatoes", <<>>),
     Stmt("new", "media", "toy_story", toy_story),
     Stmt("new", "media", "avatar", avatar),
     Stmt("new", "media", "rurouni_kenshin", rurouni_kenshin),
     Stmt("new", "media", "hunger_games", hunger_games),
     Stmt("new", "media", "taken", taken),
     Stmt("new", "media", "gone_girl", gone_girl),
     Stmt("list", "", "movies", movies_display),
     Stmt("call", "fresh_tomatoes", "", <<"movies">>) >>

\* a jump back to the first construction after the list is built
NextPcLoops(i) == IF i = 9 THEN 3 ELSE i + 1

\* no branch and no loop: control falls through to the next statement
NextPc(i) == i + 1

\* the status after statement i completed normally
After(i) == IF NextPc(i) > Len(Program) THEN "done" ELSE "running"

-----------------------------------------------------------------------------
(* media.Movie and the object model *)

FieldNames == {"title", "storyline", "poster_image_url", "trailer_youtube_url"}

\* media.Movie(title, storyline, poster_image_url, trailer_youtube_url):
\* a value object exposing the four strings by name, unvalidated
Movie(title, storyline, poster_image_url, trailer_youtube_url) ==
  [title |-> title,
   storyline |-> storyline,
   poster_image_url |-> poster_image_url,
   trailer_youtube_url |-> trailer_youtube_url]

\* a call of the constructor binds exactly four positional arguments
Rejects(args) == Len(args) # 4

\* addresses at which a new object can be created
FreeAddrs(h) == Addrs \ DOMAIN h

\* the poster and the trailer arguments written in each other's place
InstantiateSwapped(h, a, args) ==
  (a :> Movie(args[1], args[2], args[4], args[3])) @@ h

\* the call expression media.Movie(a1, a2, a3, a4): arguments are passed by
\* position, and the new object is placed at address a
Instantiate(h, a, args) ==
  (a :> Movie(args[1], args[2], args[3], args[4])) @@ h

\* name = value at module level (a rebinding replaces the old binding)
Bind(e, name, a) == (name :> a) @@ e

\* the exception a failing constructor call raises
NewError(i) ==
  IF Program[i].mod \notin imported THEN "NameError"
  ELSE IF Rejects(Program[i].args) THEN "TypeError"
  ELSE "MemoryError"

-----------------------------------------------------------------------------
(* The run of the module body *)

Init ==
  /\ pc = 1
  /\ status = "running"
  /\ error = "none"
  /\ imported = {}
  /\ env = <<>>
  /\ heap = <<>>
  /\ constructed = <<>>
  /\ movies = {}
  /\ calls = <<>>
  /\ inputs = <<>>
  /\ modified = <<>>

At(i, op) == status = "running" /\ pc = i /\ Program[i].op = op

Crash(e) ==
  /\ status' = "crashed"
  /\ error' = e
  /\ UNCHANGED <<pc, imported, env, heap, constructed, movies, calls, inputs, modified>>

\* import <module>
ExecImport(i) ==
  /\ At(i, "import")
  /\ imported' = imported \cup {Program[i].target}
  /\ pc' = NextPc(i)
  /\ status' = After(i)
  /\ UNCHANGED <<error, env, heap, constructed, movies, calls, inputs, modified>>

\* the import raises (the module is not found, or its body raises)
ExecImportRaises(i) ==
  /\ At(i, "import")
  /\ Crash("ImportError")

\* a variable reused for the next film: the name is bound to the object made
\* last and that object's attributes are overwritten
ExecNewAliased(i) ==
  /\ At(i, "new")
  /\ Program[i].mod \in imported
  /\ ~Rejects(Program[i].args)
  /\ \E a \in (IF constructed = <<>> THEN FreeAddrs(heap)
               ELSE {constructed[Len(constructed)]}) :
        /\ heap' = Instantiate(heap, a, Program[i].args)
        /\ env' = Bind(env, Program[i].target, a)
        /\ constructed' = Append(constructed, a)
  /\ pc' = NextPc(i)
  /\ status' = After(i)
  /\ UNCHANGED <<error, imported, movies, calls, inputs, modified>>

\* <name> = media.Movie(<four literals>)
ExecNew(i) ==
  /\ At(i, "new")
  /\ Program[i].mod \in imported
  /\ ~Rejects(Program[i].args)
  /\ \E a \in FreeAddrs(heap) :
        /\ heap' = Instantiate(heap, a, Program[i].args)
        /\ env' = Bind(env, Program[i].target, a)
        /\ constructed' = Append(constructed, a)
  /\ pc' = NextPc(i)
  /\ status' = After(i)
  /\ UNCHANGED <<error, imported, movies, calls, inputs, modified>>

\* an exception swallowed: the failure is noted and the run goes on
ExecNewRaisesRecovered(i) ==
  /\ At(i, "new")
  /\ error' = NewError(i)
  /\ pc' = NextPc(i)
  /\ status' = After(i)
  /\ UNCHANGED <<imported, env, heap, constructed, movies, calls, inputs, modified>>

\* the constructor call raises; nothing catches it
ExecNewRaises(i) ==
  /\ At(i, "new")
  /\ Crash(NewError(i))

\* movies = [<names>]: evaluating an unbound name raises NameError
ExecList(i) ==
  /\ At(i, "list")
  /\ LET names == Program[i].args IN
       IF \A k \in 1..Len(names) : names[k] \in DOMAIN env
       THEN /\ movies' = {[k \in 1..Len(names) |-> env[names[k]]]}
            /\ pc' = NextPc(i)
            /\ status' = After(i)
            /\ UNCHANGED <<error, imported, env, heap, constructed, calls, inputs, modified>>
       ELSE /\ status' = "crashed"
            /\ error' = "NameError"
            /\ UNCHANGED <<pc, imported, env, heap, constructed, movies, calls, inputs, modified>>

\* what the renderer receives: the list, and through it the objects
Argument(l) == [ids |-> l, recs |-> [k \in 1..Len(l) |-> heap[l[k]]]]

\* fresh_tomatoes.open_movies_page(movies): control passes to the renderer
ExecCall(i) ==
  /\ At(i, "call")
  /\ IF Program[i].mod \in imported /\ movies # {}
     THEN /\ calls' = Append(calls, Argument(CHOOSE l \in movies : TRUE))
          /\ status' = "rendering"
          /\ UNCHANGED <<pc, error, imported, env, heap, constructed, movies, inputs, modified>>
     ELSE /\ status' = "crashed"
          /\ error' = "NameError"
          /\ UNCHANGED <<pc, imported, env, heap, constructed, movies, calls, inputs, modified>>

\* the synchronous call returns; its value is discarded
RendererReturns ==
  /\ status = "rendering"
  /\ pc' = NextPc(pc)
  /\ status' = After(pc)
  /\ UNCHANGED <<error, imported, env, heap, constructed, movies, calls, inputs, modified>>

\* the renderer raises; nothing catches it
RendererRaises ==
  /\ status = "rendering"
  /\ status' = "crashed"
  /\ error' = "RendererError"
  /\ UNCHANGED <<pc, imported, env, heap, constructed, movies, calls, inputs, modified>>

Next ==
  \/ \E i \in 1..Len(Program) : ExecImport(i)
  \/ \E i \in 1..Len(Program) : ExecImportRaises(i)
  \/ \E i \in 1..Len(Program) : ExecNew(i)
  \/ \E i \in 1..Len(Program) : ExecNewRaises(i)
  \/ \E i \in 1..Len(Program) : ExecList(i)
  \/ \E i \in 1..Len(Program) : ExecCall(i)
  \/ RendererReturns
  \/ RendererRaises

Spec == Init /\ [][Next]_vars

\* the interpreter runs the next statement whenever there is one, and the
\* synchronous renderer, once entered, returns or raises
LiveSpec == Spec /\ WF_vars(Next)

-----------------------------------------------------------------------------
(* The constructor on its own: any four strings, constructed repeatedly,   *)
(* with attribute assignment on the objects made                           *)

Strs == {"", "x"}

InitCtor ==
  /\ pc = 0
  /\ status = "harness"
  /\ error = "none"
  /\ imported = {"media"}
  /\ env = <<>>
  /\ heap = <<>>
  /\ constructed = <<>>
  /\ movies = {}
  /\ calls = <<>>
  /\ inputs \in Strs \X Strs \X Strs \X Strs
  /\ modified = <<>>

\* media.Movie(*inputs) once more
CtorConstruct ==
  /\ status = "harness"
  /\ Len(constructed) < MaxObjs
  /\ \E a \in FreeAddrs(heap) :
        /\ heap' = Instantiate(heap, a, inputs)
        /\ constructed' = Append(constructed, a)
  /\ UNCHANGED <<pc, status, error, imported, env, movies, calls, inputs, modified>>

\* the attribute kept on the class: an assignment shows on every instance
CtorSetAttrShared(a, f, v) ==
  /\ status = "harness"
  /\ Len(modified) < MaxSets
  /\ a \in DOMAIN heap
  /\ heap' = [b \in DOMAIN heap |-> [heap[b] EXCEPT ![f] = v]]
  /\ modified' = Append(modified, a)
  /\ UNCHANGED <<pc, status, error, imported, env, constructed, movies, calls, inputs>>

\* obj.<f> = v on an instance: the record is immutable by convention only
CtorSetAttr(a, f, v) ==
  /\ status = "harness"
  /\ Len(modified) < MaxSets
  /\ a \in DOMAIN heap
  /\ heap' = [heap EXCEPT ![a][f] = v]
  /\ modified' = Append(modified, a)
  /\ UNCHANGED <<pc, status, error, imported, env, constructed, movies, calls, inputs>>

NextCtor ==
  \/ CtorConstruct
  \/ \E a \in Addrs, f \in FieldNames, v \in Strs : CtorSetAttr(a, f, v)

CtorSpec == InitCtor /\ [][NextCtor]_vars

-----------------------------------------------------------------------------
(* Properties *)

Range(f) == {f[k] : k \in DOMAIN f}

Distinct(f) == \A j, k \in DOMAIN f : j # k => f[j] # f[k]

\* the constructor statements of the program, in source order
NewStmts == SelectSeq(Program, LAMBDA st : st.op = "new")

\* the number of constructor statements above statement i
NewsBefore(i) == Cardinality({j \in 1..(i - 1) : Program[j].op = "new"})

Titles(c) == [k \in DOMAIN c.recs |-> c.recs[k].title]

\* C1: the sequence handed to the renderer has exactly six elements, its
\* titles are Toy Story, Avatar, Rurouni Kenshin, The Hunger Games, Taken,
\* Gone Girl in that order, and its order is the order of construction.
C1_AuthoringOrder ==
  \A c \in DOMAIN calls :
    /\ Len(calls[c].ids) = 6
    /\ Titles(calls[c]) = <<"Toy Story", "Avatar", "Rurouni Kenshin",
                            "The Hunger Games", "Taken", "Gone Girl">>
    /\ calls[c].ids = constructed

C1_Witness == status = "rendering" /\ Len(calls) = 1

\* C2: the renderer is never invoked twice, and a run that completes has
\* invoked it exactly once, with the six-element list whose first element
\* is the Toy Story record.
C2_RenderedOnce ==
  /\ Len(calls) <= 1
  /\ status = "done" =>
       /\ Len(calls) = 1
       /\ Len(calls[1].ids) = 6
       /\ calls[1].ids[1] = env["toy_story"]
       /\ calls[1].recs[1] =
            [title |-> "Toy Story",
             storyline |-> "A story of a boy and his toys that come to life",
             poster_image_url |->
               "http://upload.wikimedia.org/wikipedia/en/1/13/Toy_Story.jpg",
             trailer_youtube_url |->
               "https://www.youtube.com/watch?v=KYz2wyBy3kc"]

C2_Witness == status = "done" /\ error = "none" /\ calls # <<>>

\* C3: for each of the six records, the first positional argument is its
\* title, the second its storyline, the third its poster_image_url and the
\* fourth its trailer_youtube_url, each field holding the literal unchanged.
C3_FieldsByPosition ==
  \A i \in DOMAIN Program :
    (Program[i].op = "new" /\ Program[i].target \in DOMAIN env) =>
      LET m == heap[env[Program[i].target]]
          lit == Program[i].args
      IN /\ DOMAIN m = FieldNames
         /\ m.title = lit[1]
         /\ m.storyline = lit[2]
         /\ m.poster_image_url = lit[3]
         /\ m.trailer_youtube_url = lit[4]

C3_Witness == DOMAIN env = Range(movies_display) /\ Cardinality(DOMAIN env) = 6

\* C4: a record, once constructed, keeps the four values given at its
\* construction in every later state (through the renderer's invocation and
\* exit), and no step, the construction of a later record included, changes
\* an existing record.
C4_ValuesKept ==
  /\ Len(constructed) <= Len(NewStmts)
  /\ \A k \in DOMAIN constructed :
       LET lit == NewStmts[k].args
       IN heap[constructed[k]] = Movie(lit[1], lit[2], lit[3], lit[4])
  /\ \A c \in DOMAIN calls :
       \A k \in DOMAIN calls[c].ids : calls[c].recs[k] = heap[calls[c].ids[k]]

C4_NoStepMutates ==
  \A a \in DOMAIN heap : a \in DOMAIN heap' /\ heap'[a] = heap[a]

C4_NeverMutated == []C4_ValuesKept /\ [][C4_NoStepMutates]_vars

C4_Witness == status = "done" /\ Len(constructed) = 6 /\ Len(calls) = 1

\* C5: two constructions from the same four strings give distinct objects
\* with pairwise equal fields, and assigning an attribute of one object
\* changes no other object.
C5_ValueEqual ==
  /\ Distinct(constructed)
  /\ \A j, k \in DOMAIN constructed :
       (constructed[j] \notin Range(modified) /\ constructed[k] \notin Range(modified))
         => /\ heap[constructed[j]] = heap[constructed[k]]
            /\ heap[constructed[j]].title = inputs[1]
            /\ heap[constructed[j]].storyline = inputs[2]
            /\ heap[constructed[j]].poster_image_url = inputs[3]
            /\ heap[constructed[j]].trailer_youtube_url = inputs[4]

C5_Independent ==
  \A b \in DOMAIN heap :
    /\ b \in DOMAIN heap'
    /\ heap'[b] # heap[b] =>
         (modified' # modified /\ b = modified'[Len(modified')])

C6_NonEmptyFields ==
  /\ \A a \in DOMAIN heap :
       /\ DOMAIN heap[a] = FieldNames
       /\ \A f \in FieldNames : heap[a][f] # ""
  /\ \A c \in DOMAIN calls :
       \A k \in DOMAIN calls[c].recs :
         /\ DOMAIN calls[c].recs[k] = FieldNames
         /\ \A f \in FieldNames : calls[c].recs[k][f] # ""

C6_Witness == calls # <<>> /\ Cardinality(DOMAIN heap) = 6

\* C7: a construction that fails ends the run where it failed: no later
\* record is constructed, the list is not built, the renderer is not
\* invoked, and nothing happens afterwards; the renderer never receives
\* fewer than six elements; and no constructor call of the source is
\* rejected for its arguments.
C7_Fatal ==
  /\ error # "none" => status = "crashed"
  /\ (status = "crashed" /\ Program[pc].op = "new") =>
       /\ Len(constructed) = NewsBefore(pc)
       /\ movies = {}
       /\ calls = <<>>
  /\ \A c \in DOMAIN calls : Len(calls[c].ids) = 6
  /\ error # "TypeError"

C7_Stopped == status = "crashed" => UNCHANGED vars

C7_FailureIsFatal == []C7_Fatal /\ [][C7_Stopped]_vars

C7_Witness ==
  /\ status = "crashed"
  /\ Program[pc].op = "new"
  /\ Len(constructed) = 3

\* C8: the run is one straight line: control only moves to the next
\* statement, the six records are constructed in source order before the
\* list is collected, the list before the renderer is invoked, the
\* renderer's return ends the run, and every run terminates.
C8_Order ==
  /\ \A k \in DOMAIN constructed :
       /\ k <= Len(NewStmts)
       /\ NewStmts[k].target \in DOMAIN env
       /\ env[NewStmts[k].target] = constructed[k]
  /\ DOMAIN env = {NewStmts[k].target : k \in DOMAIN constructed}
  /\ movies # {} => Len(constructed) = 6
  /\ calls # <<>> => movies # {}
  /\ status = "done" => (pc = Len(Program) + 1 /\ Len(calls) = 1)

C8_Forward ==
  /\ pc' \in {pc, pc + 1}
  /\ status = "rendering" => status' \in {"done", "crashed"}
  /\ status \in {"done", "crashed"} => UNCHANGED vars

C8_Terminated == status \in {"done", "crashed"}

C8_LinearRun == []C8_Order /\ [][C8_Forward]_vars /\ <>C8_Terminated

C8_Witness == status = "done" /\ pc = 11 /\ Len(constructed) = 6

\* C9: the sequence the renderer is given holds each of the six constructed
\* records exactly once and nothing else, and the six titles, the six poster
\* URLs and the six trailer URLs are pairwise distinct.
C9_EachExactlyOnce ==
  \A c \in DOMAIN calls :
    LET arg == calls[c] IN
      /\ Distinct(arg.ids)
      /\ Range(arg.ids) = Range(constructed)
      /\ Range(arg.ids) = DOMAIN heap
      /\ Cardinality(Range(arg.ids)) = 6
      /\ Distinct([k \in DOMAIN arg.recs |-> arg.recs[k].title])
      /\ Distinct([k \in DOMAIN arg.recs |-> arg.recs[k].poster_image_url])
      /\ Distinct([k \in DOMAIN arg.recs |-> arg.recs[k].trailer_youtube_url])

C9_Witness == calls # <<>> /\ Len(calls[1].recs) = 6

====
